---- MODULE Spec2Model ----
(***************************************************************************)
(* A model of the INA226 MicroPython driver (src/ina226.py).               *)
(*                                                                         *)
(* The driver object holds _cal_value, _current_lsb_a, _power_lsb_w and    *)
(* _config.  Every method is one action; the bus transactions a method     *)
(* issues are recorded, in order, in `bus`, and what the caller sees       *)
(* (return value or exception) in `outcome`.  A bus transaction may fail   *)
(* (the I2C layer raises OSError); the input `f` of an action names the    *)
(* transaction of the call that fails (0: none).                           *)
(*                                                                         *)
(* Numbers the driver holds as floats are modelled as exact fractions      *)
(* <<n, d>> in lowest terms; None is <<>>; an integer the caller may       *)
(* leave out (cal_value, a return value) is <<n>>.                         *)
(***************************************************************************)
EXTENDS Integers, Sequences, FiniteSets

VARIABLES phase, _cal_value, _current_lsb_a, _power_lsb_w, _config,
          dev_cal, bus, outcome, called_calibrate, calibrated_once

vars == <<phase, _cal_value, _current_lsb_a, _power_lsb_w, _config,
          dev_cal, bus, outcome, called_calibrate, calibrated_once>>

\* The largest number of bus transactions one call issues (a current read:
\* read calibration, rewrite calibration, read current); f ranges over 0..MaxTx.
MaxTx == 3

None == <<>>

(***************************************************************************)
(* Registers and configuration bit patterns                                *)
(***************************************************************************)
_REG_CONFIG       == 0
_REG_SHUNTVOLTAGE == 1
_REG_BUSVOLTAGE   == 2
_REG_POWER        == 3
_REG_CURRENT      == 4
_REG_CALIBRATION  == 5

_CONFIG_RESET      == \h8000
\* Mutant: the constant bit one position too low.
_CONFIG_CONST_BITS_misplaced == \h2000

_CONFIG_CONST_BITS == \h4000

_AVG_1    == \h0000
_AVG_4    == \h0200
_AVG_16   == \h0400
_AVG_64   == \h0600
_AVG_128  == \h0800
_AVG_256  == \h0A00
_AVG_512  == \h0C00
_AVG_1024 == \h0E00

_VBUSCT_140US  == \h0000
_VBUSCT_204US  == \h0040
_VBUSCT_332US  == \h0080
_VBUSCT_588US  == \h00C0
_VBUSCT_1100US == \h0100
_VBUSCT_2116US == \h0140
_VBUSCT_4156US == \h0180
_VBUSCT_8244US == \h01C0

_VSHCT_140US  == \h0000
_VSHCT_204US  == \h0008
_VSHCT_332US  == \h0010
_VSHCT_588US  == \h0018
_VSHCT_1100US == \h0020
_VSHCT_2116US == \h0028
_VSHCT_4156US == \h0030
_VSHCT_8244US == \h0038

_MODE_POWERDOWN            == \h0000
_MODE_SHUNT_TRIGGERED      == \h0001
_MODE_BUS_TRIGGERED        == \h0002
_MODE_SHUNT_BUS_TRIGGERED  == \h0003
_MODE_ADC_OFF              == \h0004
_MODE_SHUNT_CONTINUOUS     == \h0005
_MODE_BUS_CONTINUOUS       == \h0006
_MODE_SHUNT_BUS_CONTINUOUS == \h0007

\* The enum-like values the class exposes to its users.
AVG == {_AVG_1, _AVG_4, _AVG_16, _AVG_64, _AVG_128, _AVG_256, _AVG_512, _AVG_1024}

VBUSCT == {_VBUSCT_140US, _VBUSCT_204US, _VBUSCT_332US, _VBUSCT_588US,
           _VBUSCT_1100US, _VBUSCT_2116US, _VBUSCT_4156US, _VBUSCT_8244US}

VSHCT == {_VSHCT_140US, _VSHCT_204US, _VSHCT_332US, _VSHCT_588US,
          _VSHCT_1100US, _VSHCT_2116US, _VSHCT_4156US, _VSHCT_8244US}

MODE == {_MODE_POWERDOWN, _MODE_SHUNT_TRIGGERED, _MODE_BUS_TRIGGERED,
         _MODE_SHUNT_BUS_TRIGGERED, _MODE_ADC_OFF, _MODE_SHUNT_CONTINUOUS,
         _MODE_BUS_CONTINUOUS, _MODE_SHUNT_BUS_CONTINUOUS}

(***************************************************************************)
(* Integer bit operations (Python's | and & on non-negative ints)          *)
(***************************************************************************)
RECURSIVE BitOr(_, _)
BitOr(a, b) ==
    IF a = 0 THEN b
    ELSE IF b = 0 THEN a
    ELSE (IF a % 2 = 1 \/ b % 2 = 1 THEN 1 ELSE 0) + 2 * BitOr(a \div 2, b \div 2)

RECURSIVE BitAnd(_, _)
BitAnd(a, b) ==
    IF a = 0 \/ b = 0 THEN 0
    ELSE (a % 2) * (b % 2) + 2 * BitAnd(a \div 2, b \div 2)

(***************************************************************************)
(* Fractions                                                               *)
(***************************************************************************)
RECURSIVE GCD(_, _)
GCD(a, b) == IF b = 0 THEN a ELSE GCD(b, a % b)

Abs(n) == IF n < 0 THEN -n ELSE n

\* n/d in lowest terms, d > 0.
Rat(n, d) ==
    LET g == GCD(Abs(n), Abs(d))
        s == IF d < 0 THEN -1 ELSE 1
    IN  <<(s * n) \div g, (s * d) \div g>>

\* x * y, cancelling across before multiplying.
RatMul(x, y) ==
    LET g1 == GCD(Abs(x[1]), y[2])
        g2 == GCD(Abs(y[1]), x[2])
    IN  Rat((x[1] \div g1) * (y[1] \div g2), (x[2] \div g2) * (y[2] \div g1))

\* x / y, y # 0.
RatDiv(x, y) == RatMul(x, Rat(y[2], y[1]))

\* x <= 0
RatNonPos(x) == x[1] <= 0

\* int(x): rounds toward zero.
Trunc(x) == IF x[1] >= 0 THEN x[1] \div x[2] ELSE -((-x[1]) \div x[2])

(***************************************************************************)
(* Datasheet scale factors                                                 *)
(***************************************************************************)
\* 2.5 uV per bit
_SHUNT_V_LSB_V == Rat(25, 10000000)

\* 1.25 mV per bit
_BUS_V_LSB_V == Rat(125, 100000)

\* 0.00512
_CALIBRATION_FACTOR == Rat(512, 100000)

_to_signed_16(x) == IF BitAnd(x, \h8000) # 0 THEN x - \h10000 ELSE x

\* x & 0xFFFF on a Python int of either sign: the low 16 bits of its
\* two's-complement form.
Mask16(x) == IF x >= 0 THEN BitAnd(x, \hFFFF) ELSE x % 65536

(***************************************************************************)
(* Bus transactions.  A log is the sequence of transactions a call has     *)
(* issued so far; transaction number f of the call raises OSError.         *)
(***************************************************************************)
Failed(log) == log # <<>> /\ ~log[Len(log)].ok

\* The two bytes _write_u16 puts in its buffer, as the word on the wire.
Wire(value) == ((value \div 256) % 256) * 256 + (value % 256)

_write_u16(log, reg, value, f) ==
    Append(log, [kind |-> "w", reg |-> reg, val |-> Wire(value),
                 ok |-> f # Len(log) + 1])

\* word is what the device holds in register reg.
_read_u16(log, reg, word, f) ==
    Append(log, [kind |-> "r", reg |-> reg, val |-> word,
                 ok |-> f # Len(log) + 1])

\* The device's calibration register after the transactions of log, from dev:
\* a completed calibration write stores the word, a completed configuration
\* write with the reset bit set clears it.
RECURSIVE DeviceCal(_, _)
DeviceCal(log, dev) ==
    IF log = <<>> THEN dev
    ELSE LET t == Head(log)
             d == IF t.kind = "w" /\ t.ok /\ t.reg = _REG_CALIBRATION THEN t.val
                  ELSE IF t.kind = "w" /\ t.ok /\ t.reg = _REG_CONFIG
                          /\ BitAnd(t.val, _CONFIG_RESET) # 0 THEN 0
                  ELSE dev
         IN  DeviceCal(Tail(log), d)

\* What a call hands back: the object's fields, the log, the exception
\* ("none" when the call returns) and the return value.
Return(self, log, ret) ==
    [self |-> self, log |-> log,
     err |-> IF Failed(log) THEN "OSError" ELSE "none",
     ret |-> IF Failed(log) THEN None ELSE ret]

Raise(self, log, err) == [self |-> self, log |-> log, err |-> err, ret |-> None]

(***************************************************************************)
(* The methods.  self is the record of the object's fields.                *)
(***************************************************************************)
\* Mutant: the shunt conversion time is left out of the word.
ConfigWord_no_vshct(avg, vbusct, vshct, mode) ==
    BitOr(BitOr(BitOr(_CONFIG_CONST_BITS, avg), vbusct), mode)

ConfigWord(avg, vbusct, vshct, mode) ==
    BitOr(BitOr(BitOr(BitOr(_CONFIG_CONST_BITS, avg), vbusct), vshct), mode)

reset(self, log, f) ==
    Return(self, _write_u16(log, _REG_CONFIG, _CONFIG_RESET, f), None)

configure(self, avg, vbusct, vshct, mode, log, f) ==
    LET config == ConfigWord(avg, vbusct, vshct, mode)
    IN  Return([self EXCEPT !._config = <<config>>],
               _write_u16(log, _REG_CONFIG, config, f),
               <<config>>)

\* Mutant: the upper guardrail is missing.
Guardrails_no_cap(cal_int) == IF cal_int <= 0 THEN 1 ELSE cal_int

\* if cal_int <= 0: cal_int = 1; if cal_int > 0xFFFF: cal_int = 0xFFFF
Guardrails(cal_int) ==
    IF cal_int <= 0 THEN 1 ELSE IF cal_int > \hFFFF THEN \hFFFF ELSE cal_int

CalibrateStore(self, cal, lsb) ==
    [self EXCEPT !._cal_value = cal,
                 !._current_lsb_a = lsb,
                 !._power_lsb_w = RatMul(Rat(25, 1), lsb)]

\* Mutant: the override path checks only that current_lsb_a is given.
calibrate_override_lsb_unchecked(self, a, log, f) ==
    IF a.current_lsb_a = None
    THEN Raise(self, log, "ValueError")
    ELSE LET cal == Mask16(a.cal_value[1])
         IN  Return(CalibrateStore(self, cal, a.current_lsb_a),
                    _write_u16(log, _REG_CALIBRATION, cal, f),
                    <<cal>>)

\* The caller gives cal_value.
calibrate_override(self, a, log, f) ==
    IF a.current_lsb_a = None \/ RatNonPos(a.current_lsb_a)
    THEN Raise(self, log, "ValueError")
    ELSE LET cal == Mask16(a.cal_value[1])
         IN  Return(CalibrateStore(self, cal, a.current_lsb_a),
                    _write_u16(log, _REG_CALIBRATION, cal, f),
                    <<cal>>)

\* cal_value is computed from r_shunt_ohms and current_lsb_a.
calibrate_computed(self, a, log, f) ==
    IF a.current_lsb_a = None
       /\ (a.max_expected_amps = None \/ RatNonPos(a.max_expected_amps))
    THEN Raise(self, log, "ValueError")
    ELSE IF a.current_lsb_a # None /\ RatNonPos(a.current_lsb_a)
    THEN Raise(self, log, "ValueError")
    ELSE LET current_lsb_a == IF a.current_lsb_a = None
                              THEN RatDiv(a.max_expected_amps, Rat(32768, 1))
                              ELSE a.current_lsb_a
             cal == RatDiv(_CALIBRATION_FACTOR,
                           RatMul(a.r_shunt_ohms, current_lsb_a))
             cal_int == Guardrails(Trunc(cal))
         IN  Return(CalibrateStore(self, cal_int, current_lsb_a),
                    _write_u16(log, _REG_CALIBRATION, cal_int, f),
                    <<cal_int>>)

calibrate(self, a, log, f) ==
    IF a.r_shunt_ohms = None \/ RatNonPos(a.r_shunt_ohms)
    THEN Raise(self, log, "ValueError")
    ELSE IF a.cal_value # None
    THEN calibrate_override(self, a, log, f)
    ELSE calibrate_computed(self, a, log, f)

\* Mutant: the calibration register is rewritten on every check.
_ensure_calibration_always_write(self, dev, log, f) ==
    IF self._cal_value = 0
    THEN Raise(self, log, "RuntimeError")
    ELSE LET l1 == _read_u16(log, _REG_CALIBRATION, dev, f)
         IN  IF Failed(l1) THEN Return(self, l1, None)
             ELSE Return(self, _write_u16(l1, _REG_CALIBRATION, self._cal_value, f), None)

\* Mutant: a failed read of the calibration register is tried once more.
_ensure_calibration_retry(self, dev, log, f) ==
    IF self._cal_value = 0
    THEN Raise(self, log, "RuntimeError")
    ELSE LET l0 == _read_u16(log, _REG_CALIBRATION, dev, f)
             l1 == IF Failed(l0) THEN _read_u16(l0, _REG_CALIBRATION, dev, f) ELSE l0
         IN  IF Failed(l1) THEN Return(self, l1, None)
             ELSE IF dev # self._cal_value
             THEN Return(self, _write_u16(l1, _REG_CALIBRATION, self._cal_value, f), None)
             ELSE Return(self, l1, None)

\* dev is the word the device's calibration register holds.
_ensure_calibration(self, dev, log, f) ==
    IF self._cal_value = 0
    THEN Raise(self, log, "RuntimeError")
    ELSE LET l1 == _read_u16(log, _REG_CALIBRATION, dev, f)
         IN  IF Failed(l1) THEN Return(self, l1, None)
             ELSE IF dev # self._cal_value
             THEN Return(self, _write_u16(l1, _REG_CALIBRATION, self._cal_value, f), None)
             ELSE Return(self, l1, None)

\* raw is the word the device's measurement register holds.
shunt_voltage(self, raw, log, f) ==
    Return(self, _read_u16(log, _REG_SHUNTVOLTAGE, raw, f),
           RatMul(Rat(_to_signed_16(raw), 1), _SHUNT_V_LSB_V))

bus_voltage(self, raw, log, f) ==
    Return(self, _read_u16(log, _REG_BUSVOLTAGE, raw, f),
           RatMul(Rat(raw, 1), _BUS_V_LSB_V))

current(self, dev, raw, log, f) ==
    LET e == _ensure_calibration(self, dev, log, f)
    IN  IF e.err # "none" THEN e
        ELSE IF self._current_lsb_a = None THEN Raise(self, e.log, "RuntimeError")
        ELSE Return(self, _read_u16(e.log, _REG_CURRENT, raw, f),
                    RatMul(Rat(_to_signed_16(raw), 1), self._current_lsb_a))

power(self, dev, raw, log, f) ==
    LET e == _ensure_calibration(self, dev, log, f)
    IN  IF e.err # "none" THEN e
        ELSE IF self._power_lsb_w = None THEN Raise(self, e.log, "RuntimeError")
        ELSE Return(self, _read_u16(e.log, _REG_POWER, raw, f),
                    RatMul(Rat(_to_signed_16(raw), 1), self._power_lsb_w))

\* calibrate(r_shunt_ohms=0.1, max_expected_amps=3.6, current_lsb_a=0.0001)
DefaultCalibration ==
    [r_shunt_ohms |-> Rat(1, 10), max_expected_amps |-> Rat(36, 10),
     current_lsb_a |-> Rat(1, 10000), cal_value |-> None]

\* __init__: the fields, then configure() and calibrate() with the defaults.
NewObject ==
    [_cal_value |-> 0, _current_lsb_a |-> None, _power_lsb_w |-> None,
     _config |-> None]

\* Mutant: the constructor configures and leaves calibration to the caller.
__init__no_default_calibration(self, f) ==
    configure(self, _AVG_512, _VBUSCT_588US, _VSHCT_588US,
              _MODE_SHUNT_BUS_CONTINUOUS, <<>>, f)

__init__(self, f) ==
    LET c == configure(self, _AVG_512, _VBUSCT_588US, _VSHCT_588US,
                       _MODE_SHUNT_BUS_CONTINUOUS, <<>>, f)
    IN  IF c.err # "none" THEN c
        ELSE calibrate(c.self, DefaultCalibration, c.log, f)

(***************************************************************************)
(* The inputs the callers and the device draw from                         *)
(***************************************************************************)
\* r_shunt_ohms: missing, 0, negative, 1 mOhm, 0.1 Ohm, 10 Ohm
ShuntInputs == {None, Rat(0, 1), Rat(-1, 10), Rat(1, 1000), Rat(1, 10), Rat(10, 1)}

\* max_expected_amps: missing, 0, 3.6 A, 1000 A
MaxAmpsInputs == {None, Rat(0, 1), Rat(36, 10), Rat(1000, 1)}

\* current_lsb_a: missing, 0, negative, 10 uA, 100 uA, 1 mA
LsbInputs == {None, Rat(0, 1), Rat(-1, 10000), Rat(1, 100000), Rat(1, 10000),
              Rat(1, 1000)}

\* cal_value: missing, 0, 1, 512, 0xFFFF, 0x10000, -1
CalValueInputs == {None, <<0>>, <<1>>, <<512>>, <<65535>>, <<65536>>, <<-1>>}

\* Every combination of the above: the calibration arithmetic is checked on
\* all of them.
CalibrateGrid ==
    [r_shunt_ohms : ShuntInputs, max_expected_amps : MaxAmpsInputs,
     current_lsb_a : LsbInputs, cal_value : CalValueInputs]

Args(r, m, l, c) ==
    [r_shunt_ohms |-> r, max_expected_amps |-> m, current_lsb_a |-> l,
     cal_value |-> c]

\* The calibrate() calls of the object's life: one for each way the arguments
\* are rejected, the computed path (512, 466, a quotient below 1, a quotient
\* above 0xFFFF) and the cal_value override (0, 1000, 0x10000).
CalibrateInputs ==
    { Args(None, None, Rat(1, 10000), None),
      Args(Rat(0, 1), Rat(36, 10), None, None),
      Args(Rat(-1, 10), None, Rat(1, 10000), <<512>>),
      Args(Rat(1, 10), None, None, <<512>>),
      Args(Rat(1, 10), Rat(36, 10), Rat(0, 1), <<512>>),
      Args(Rat(1, 10), None, None, None),
      Args(Rat(1, 10), Rat(0, 1), None, None),
      Args(Rat(1, 10), Rat(36, 10), Rat(0, 1), None),
      Args(Rat(1, 10), None, Rat(-1, 10000), None),
      Args(Rat(1, 10), None, Rat(1, 10000), None),
      Args(Rat(1, 10), Rat(36, 10), None, None),
      Args(Rat(10, 1), None, Rat(1, 1000), None),
      Args(Rat(1, 1000), None, Rat(1, 100000), None),
      Args(Rat(1, 10), None, Rat(1, 10000), <<0>>),
      Args(Rat(1, 10), None, Rat(1, 1000), <<1000>>),
      Args(Rat(1, 10), None, Rat(1, 10000), <<65536>>) }

\* configure() arguments: the defaults, and tuples with one value outside its
\* field's enumeration (the reset bit, a reserved bit, a bit above the word).
ConfigureInputs ==
    { <<_AVG_512, _VBUSCT_588US, _VSHCT_588US, _MODE_SHUNT_BUS_CONTINUOUS>>,
      <<\h8000, _VBUSCT_588US, _VSHCT_588US, _MODE_SHUNT_BUS_CONTINUOUS>>,
      <<_AVG_512, \h1000, _VSHCT_588US, _MODE_SHUNT_BUS_CONTINUOUS>>,
      <<_AVG_512, _VBUSCT_588US, _VSHCT_588US, \h10000>> }

\* Words a measurement register may hold.
RawInputs == {\h7FFF, \h8000}

(***************************************************************************)
(* State machine                                                           *)
(***************************************************************************)
Self ==
    [_cal_value |-> _cal_value, _current_lsb_a |-> _current_lsb_a,
     _power_lsb_w |-> _power_lsb_w, _config |-> _config]

\* The step of a call op(args) whose result is r.
Call(op, args, r) ==
    /\ _cal_value' = r.self._cal_value
    /\ _current_lsb_a' = r.self._current_lsb_a
    /\ _power_lsb_w' = r.self._power_lsb_w
    /\ _config' = r.self._config
    /\ dev_cal' = DeviceCal(r.log, dev_cal)
    /\ bus' = r.log
    /\ outcome' = [op |-> op, args |-> args, err |-> r.err, ret |-> r.ret]

Init ==
    /\ phase = "new"
    /\ _cal_value = NewObject._cal_value
    /\ _current_lsb_a = NewObject._current_lsb_a
    /\ _power_lsb_w = NewObject._power_lsb_w
    /\ _config = NewObject._config
    /\ dev_cal \in {0, 512}
    /\ bus = <<>>
    /\ outcome = [op |-> "none", args |-> <<>>, err |-> "none", ret |-> None]
    /\ called_calibrate = FALSE
    /\ calibrated_once = FALSE

\* INA226(i2c, addr): an exception leaves the caller without an object.
Construct ==
    /\ phase = "new"
    /\ \E f \in 0..MaxTx :
          LET r == __init__(Self, f)
          IN  /\ Call("__init__", <<>>, r)
              /\ phase' = IF r.err = "none" THEN "ready" ELSE "failed"
              /\ calibrated_once' = (r.err = "none")
    /\ UNCHANGED called_calibrate

Reset ==
    /\ phase = "ready"
    /\ \E f \in 0..MaxTx : Call("reset", <<>>, reset(Self, <<>>, f))
    /\ UNCHANGED <<phase, called_calibrate, calibrated_once>>

ConfigureWith(inputs) ==
    /\ phase = "ready"
    /\ \E a \in inputs, f \in 0..MaxTx :
          Call("configure", a, configure(Self, a[1], a[2], a[3], a[4], <<>>, f))
    /\ UNCHANGED <<phase, called_calibrate, calibrated_once>>

Configure == ConfigureWith(ConfigureInputs)

CalibrateWith(inputs) ==
    /\ phase = "ready"
    /\ \E a \in inputs, f \in 0..MaxTx :
          LET r == calibrate(Self, a, <<>>, f)
          IN  /\ Call("calibrate", a, r)
              /\ calibrated_once' = (calibrated_once \/ r.err = "none")
    /\ called_calibrate' = TRUE
    /\ UNCHANGED phase

Calibrate == CalibrateWith(CalibrateInputs)

ShuntVoltage ==
    /\ phase = "ready"
    /\ \E raw \in RawInputs, f \in 0..MaxTx :
          Call("shunt_voltage", <<>>, shunt_voltage(Self, raw, <<>>, f))
    /\ UNCHANGED <<phase, called_calibrate, calibrated_once>>

BusVoltage ==
    /\ phase = "ready"
    /\ \E raw \in RawInputs, f \in 0..MaxTx :
          Call("bus_voltage", <<>>, bus_voltage(Self, raw, <<>>, f))
    /\ UNCHANGED <<phase, called_calibrate, calibrated_once>>

Current ==
    /\ phase = "ready"
    /\ \E raw \in RawInputs, f \in 0..MaxTx :
          Call("current", <<>>, current(Self, dev_cal, raw, <<>>, f))
    /\ UNCHANGED <<phase, called_calibrate, calibrated_once>>

Power ==
    /\ phase = "ready"
    /\ \E raw \in RawInputs, f \in 0..MaxTx :
          Call("power", <<>>, power(Self, dev_cal, raw, <<>>, f))
    /\ UNCHANGED <<phase, called_calibrate, calibrated_once>>

\* The device loses power: its calibration register returns to 0.
Brownout ==
    /\ phase = "ready"
    /\ dev_cal' = 0
    /\ bus' = <<>>
    /\ outcome' = [op |-> "brownout", args |-> <<>>, err |-> "none", ret |-> None]
    /\ UNCHANGED <<phase, _cal_value, _current_lsb_a, _power_lsb_w, _config,
                   called_calibrate, calibrated_once>>

Next ==
    \/ Construct
    \/ Reset
    \/ Configure
    \/ Calibrate
    \/ ShuntVoltage
    \/ BusVoltage
    \/ Current
    \/ Power
    \/ Brownout

Spec == Init /\ [][Next]_vars

\* The configuration codec alone: the first call on a new object is
\* configure(), over every enumerated tuple.
ConfigureEnumerated ==
    outcome.op = "__init__" /\ ConfigureWith(AVG \X VBUSCT \X VSHCT \X MODE)

NextCodec ==
    \/ Construct
    \/ ConfigureEnumerated

SpecCodec == Init /\ [][NextCodec]_vars

\* The calibration arithmetic alone: the caller's first calibrate() on a new
\* object, over the whole grid of arguments.
CalibrateFirst == ~called_calibrate /\ CalibrateWith(CalibrateGrid)

NextCalibrate ==
    \/ Construct
    \/ CalibrateFirst

SpecCalibrate == Init /\ [][NextCalibrate]_vars

(***************************************************************************)
(* Properties                                                              *)
(***************************************************************************)
IsRead(op) == op \in {"current", "power"}

MeasurementReg(op) == IF op = "current" THEN _REG_CURRENT ELSE _REG_POWER

CalWrites(log) ==
    {i \in 1..Len(log) : log[i].kind = "w" /\ log[i].reg = _REG_CALIBRATION}

\* C1: a current or power read on an object whose stored scalar C is not 0
\* first reads the calibration register; with V the word the device holds,
\* it writes C to the calibration register exactly when V # C, and only then
\* reads the measurement register; when V = C it writes nothing.
C1_ReadThenRewrite ==
    [][ (IsRead(outcome'.op) /\ _cal_value # 0) =>
           LET C == _cal_value
               V == dev_cal
               b == bus'
           IN  /\ Len(b) >= 1
               /\ b[1].kind = "r" /\ b[1].reg = _REG_CALIBRATION /\ b[1].val = V
               /\ ~b[1].ok => Len(b) = 1
               /\ (b[1].ok /\ V # C) =>
                     /\ Len(b) >= 2
                     /\ b[2].kind = "w" /\ b[2].reg = _REG_CALIBRATION /\ b[2].val = C
                     /\ CalWrites(b) = {2}
                     /\ IF b[2].ok
                        THEN /\ Len(b) = 3
                             /\ b[3].kind = "r"
                             /\ b[3].reg = MeasurementReg(outcome'.op)
                             /\ dev_cal' = C
                        ELSE Len(b) = 2
               /\ (b[1].ok /\ V = C) =>
                     /\ CalWrites(b) = {}
                     /\ Len(b) = 2
                     /\ b[2].kind = "r"
                     /\ b[2].reg = MeasurementReg(outcome'.op)
      ]_vars

\* A read that found the calibration register at 0 while 512 was stored,
\* restored 512 and then read the current register.
C1_Witness ==
    /\ outcome.op = "current" /\ outcome.err = "none"
    /\ _cal_value = 512
    /\ Len(bus) = 3
    /\ bus[1].kind = "r" /\ bus[1].val = 0
    /\ bus[2].kind = "w" /\ bus[2].val = 512
    /\ bus[3].reg = _REG_CURRENT

\* C2 as stated: on an object on which the caller has made no calibrate() call,
\* a current or power read fails with RuntimeError and issues no transaction.
C2_Original ==
    (phase = "ready" /\ ~called_calibrate /\ IsRead(outcome.op)) =>
        (outcome.err = "RuntimeError" /\ bus = <<>>)

\* C2 amended: a current or power read fails with RuntimeError exactly when
\* the stored scalar is 0, and then issues no transaction; the constructor
\* has already calibrated, so an object on which the caller has made no
\* calibrate() call holds the scalar 512.
C2_Amended ==
    /\ IsRead(outcome.op) =>
          /\ (outcome.err = "RuntimeError") <=> (_cal_value = 0)
          /\ (outcome.err = "RuntimeError") => (bus = <<>>)
    /\ (phase = "ready" /\ ~called_calibrate) => _cal_value = 512

\* A current read on a new object, before any calibrate() of the caller,
\* returned a value.
C2_Witness ==
    /\ phase = "ready" /\ ~called_calibrate
    /\ outcome.op = "current" /\ outcome.err = "none"
    /\ bus # <<>>

\* C3: once a calibrate() call has returned, no current or power read fails
\* with RuntimeError.
C3_NeverReverts ==
    (calibrated_once /\ IsRead(outcome.op)) => outcome.err # "RuntimeError"

\* C4: once a calibrate() call has returned the stored scalar is in 1..65535,
\* and every word written to the calibration register is in 1..65535.
C4_ScalarInRange ==
    /\ calibrated_once => _cal_value \in 1..65535
    /\ \A i \in CalWrites(bus) : bus[i].val \in 1..65535

Positive(x) == x # None /\ ~RatNonPos(x)

\* The arguments C5 lists as invalid.
InvalidCalibrateArgs(a) ==
    \/ ~Positive(a.r_shunt_ohms)
    \/ a.cal_value # None /\ ~Positive(a.current_lsb_a)
    \/ a.cal_value = None /\ ~Positive(a.current_lsb_a)
          /\ ~Positive(a.max_expected_amps)
    \/ a.cal_value = None /\ a.current_lsb_a # None /\ RatNonPos(a.current_lsb_a)

\* C5: a calibrate() call with invalid arguments raises ValueError, issues no
\* transaction and leaves the stored scalar, current_lsb and power_lsb (and
\* the device's calibration register) as they were.
C5_InvalidCalibrateRejected ==
    [][ (outcome'.op = "calibrate" /\ InvalidCalibrateArgs(outcome'.args)) =>
           /\ outcome'.err = "ValueError"
           /\ bus' = <<>>
           /\ UNCHANGED <<_cal_value, _current_lsb_a, _power_lsb_w, dev_cal>>
      ]_vars

\* calibrate(cal_value=512) without a usable current_lsb_a was rejected on an
\* object calibrated to 466.
C5_Witness ==
    /\ outcome.op = "calibrate" /\ outcome.err = "ValueError"
    /\ outcome.args.cal_value = <<512>>
    /\ Positive(outcome.args.r_shunt_ohms)
    /\ _cal_value = 466
    /\ _current_lsb_a = Rat(36, 327680)

\* C6: for every enumerated (avg, vbusct, vshct, mode) the word configure()
\* writes to the configuration register, stores and returns gives back each
\* argument under its field's mask and has the constant bit set.
C6_ConfigFieldsRecovered ==
    (outcome.op = "configure" /\ outcome.args \in AVG \X VBUSCT \X VSHCT \X MODE) =>
        /\ Len(bus) = 1
        /\ bus[1].kind = "w" /\ bus[1].reg = _REG_CONFIG
        /\ LET W == bus[1].val
           IN  /\ BitAnd(W, \h0E00) = outcome.args[1]
               /\ BitAnd(W, \h01C0) = outcome.args[2]
               /\ BitAnd(W, \h0038) = outcome.args[3]
               /\ BitAnd(W, \h0007) = outcome.args[4]
               /\ BitAnd(W, \h4000) = \h4000
               /\ _config = <<W>>
               /\ outcome.err = "none" => outcome.ret = <<W>>

\* configure(AVG_4, VBUSCT_332US, VSHCT_1100US, MODE_ADC_OFF) returned 0x42A4.
C6_Witness ==
    /\ outcome.op = "configure" /\ outcome.err = "none"
    /\ outcome.args = <<_AVG_4, _VBUSCT_332US, _VSHCT_1100US, _MODE_ADC_OFF>>
    /\ outcome.ret = <<\h42A4>>

\* C7: configure() with a value outside its field's enumeration raises
\* ValueError and writes nothing.
C7_RejectsNonEnumerated ==
    (outcome.op = "configure" /\ outcome.args \notin AVG \X VBUSCT \X VSHCT \X MODE) =>
        (outcome.err = "ValueError" /\ bus = <<>>)

\* The bits a field's values use.
RECURSIVE FieldBits(_)
FieldBits(values) ==
    IF values = {} THEN 0
    ELSE LET v == CHOOSE x \in values : TRUE
         IN  BitOr(v, FieldBits(values \ {v}))

ConfigFields ==
    <<_CONFIG_CONST_BITS, FieldBits(AVG), FieldBits(VBUSCT), FieldBits(VSHCT),
      FieldBits(MODE)>>

FieldsDisjoint ==
    \A i, j \in 1..Len(ConfigFields) :
        i # j => BitAnd(ConfigFields[i], ConfigFields[j]) = 0

FieldsUnion ==
    BitOr(BitOr(BitOr(BitOr(ConfigFields[1], ConfigFields[2]), ConfigFields[3]),
                ConfigFields[4]), ConfigFields[5])

\* C8 as stated: the five fields of a word configure() builds are pairwise
\* disjoint and together cover all 16 bits of the word.
C8_Original ==
    (outcome.op = "configure" /\ outcome.args \in AVG \X VBUSCT \X VSHCT \X MODE) =>
        (FieldsDisjoint /\ FieldsUnion = \hFFFF)

\* C8 amended: the five fields are pairwise disjoint and together cover
\* 0x4FFF; bits 15 (reset), 13 and 12 belong to none of them and are clear in
\* every word configure() builds from enumerated values.
C8_Amended ==
    /\ FieldsDisjoint
    /\ FieldsUnion = \h4FFF
    /\ BitAnd(FieldsUnion, _CONFIG_RESET) = 0
    /\ (outcome.op = "configure" /\ outcome.args \in AVG \X VBUSCT \X VSHCT \X MODE) =>
          /\ BitAnd(_config[1], \hB000) = 0
          /\ BitAnd(bus[1].val, \hB000) = 0

\* configure() with every field at its largest value wrote 0x4FFF.
C8_Witness ==
    /\ outcome.op = "configure" /\ outcome.err = "none"
    /\ bus[1].val = \h4FFF
    /\ _config = <<FieldsUnion>>

RatLeq(x, y) == x[1] * y[2] <= y[1] * x[2]

RatLess(x, y) == x[1] * y[2] < y[1] * x[2]

\* c is the quotient 0.00512 / x rounded toward zero and held in 1..65535,
\* said without dividing: c * x <= 0.00512 < (c + 1) * x between the ends.
IsClampedQuotient(c, x) ==
    LET k == Rat(512, 100000)
    IN  \/ c = 1 /\ RatLess(k, RatMul(Rat(2, 1), x))
        \/ c = 65535 /\ RatLeq(RatMul(Rat(65535, 1), x), k)
        \/ /\ c \in 2..65534
           /\ RatLeq(RatMul(Rat(c, 1), x), k)
           /\ RatLess(k, RatMul(Rat(c + 1, 1), x))

\* C9: on the computed path with r_shunt_ohms > 0 and current_lsb > 0 (given,
\* or max_expected_amps / 32768), calibrate() stores, writes and returns the
\* quotient 0.00512 / (r_shunt_ohms * current_lsb) rounded toward zero and
\* held in 1..65535; 0.1 Ohm with 0.0001 A gives 512, 0.1 Ohm with 3.6 A
\* gives 466.
C9_ComputedScalar ==
    LET a == outcome.args
    IN  (/\ outcome.op = "calibrate"
         /\ a.cal_value = None
         /\ Positive(a.r_shunt_ohms)
         /\ \/ Positive(a.current_lsb_a)
            \/ a.current_lsb_a = None /\ Positive(a.max_expected_amps)) =>
            LET lsb == IF a.current_lsb_a # None THEN a.current_lsb_a
                       ELSE Rat(a.max_expected_amps[1], a.max_expected_amps[2] * 32768)
                x == RatMul(a.r_shunt_ohms, lsb)
            IN  /\ outcome.err \in {"none", "OSError"}
                /\ IsClampedQuotient(_cal_value, x)
                /\ Len(bus) = 1
                /\ bus[1].kind = "w" /\ bus[1].reg = _REG_CALIBRATION
                /\ bus[1].val = _cal_value
                /\ outcome.err = "none" => outcome.ret = <<_cal_value>>
                /\ (a.r_shunt_ohms = Rat(1, 10) /\ lsb = Rat(1, 10000)) => _cal_value = 512
                /\ (a.r_shunt_ohms = Rat(1, 10) /\ a.current_lsb_a = None
                      /\ a.max_expected_amps = Rat(36, 10)) => _cal_value = 466

\* calibrate(r_shunt_ohms=0.001, current_lsb_a=0.00001): the quotient 512000
\* came back as 65535.
C9_Witness ==
    /\ outcome.op = "calibrate" /\ outcome.err = "none"
    /\ outcome.args = Args(Rat(1, 1000), None, Rat(1, 100000), None)
    /\ outcome.ret = <<65535>>
    /\ dev_cal = 65535

\* C10: a failed transaction is the last one of its call, the call raises
\* OSError exactly when one of its transactions failed, and it returns
\* nothing then.
C10_TransportErrorEndsCall ==
    /\ \A i \in 1..Len(bus) : ~bus[i].ok => i = Len(bus)
    /\ (outcome.err = "OSError") <=> (\E i \in 1..Len(bus) : ~bus[i].ok)
    /\ outcome.err = "OSError" => outcome.ret = None

\* A power read whose rewrite of the calibration register failed: the power
\* register was not read.
C10_Witness ==
    /\ outcome.op = "power" /\ outcome.err = "OSError"
    /\ Len(bus) = 2
    /\ bus[1].ok /\ bus[2].kind = "w" /\ ~bus[2].ok

====
